---- MODULE Spec2Model ----
(***************************************************************************)
(* The event ledger of the Life Simulation Backend (main.py): the JSONL    *)
(* event log, the handlers that append to it (append_event_log,            *)
(* resolve_turn), the handlers that replay it (get_event_log,              *)
(* get_balances, get_inventory_snapshot) and gpt_precheck.                 *)
(*                                                                         *)
(* Handlers are plain `def` endpoints, which the framework runs on a       *)
(* thread pool: requests run concurrently and interleave at every access   *)
(* to the clock and to the log file.  A request is a process p with a      *)
(* program counter pc[p].                                                  *)
(*                                                                         *)
(* Encoding of values:                                                     *)
(*   - a timestamp string is modelled by an integer; the order of the      *)
(*     integers stands for the lexicographic order of the strings that     *)
(*     sorted() compares;                                                  *)
(*   - amounts (Python floats) are modelled by integers;                   *)
(*   - an event id is a pair <<origin, n>>;                                *)
(*   - a line of the log file is modelled by the dict json.loads gives     *)
(*     back for it; the fields no modelled handler reads (actor, type,     *)
(*     feeling, relationshipDeltas, knowledgeScope, notes, reason, value,  *)
(*     props) are left out of the records.                                 *)
(***************************************************************************)
EXTENDS Integers, Sequences, FiniteSets, TLC

(* ------------------------------ bounds --------------------------------- *)

\* number of request slots (concurrent requests in flight)
NumReq == 2

\* cap on the number of lines of the event log
MaxLog == 3

\* last tick of the server clock
MaxClock == 2

\* cap on the number of ids drawn from uuid.uuid4(): one draw may be lost
\* to a failed append
MaxUuid == MaxLog + 1

Procs == 1..NumReq

\* the slot used by a single client that sends its requests one after another
Client == CHOOSE p \in Procs : \A q \in Procs : p <= q

(* ------------------------------ values --------------------------------- *)

\* Python None in an Optional[str] field
None == "None"

\* Python None in the (integer-modelled) timestamp field
NoTimestamp == -1

\* eventId: Optional[str] = None
NoEventId == <<"none", 0>>

\* an eventId sent by the client
ClientId(n) == <<"client", n>>

\* str(uuid.uuid4()): the n-th id drawn; distinct draws give distinct ids
uuid4(n) == <<"uuid", n>>

MoneyDelta(ownerType, ownerId, currency, amount) ==
    [ownerType |-> ownerType, ownerId |-> ownerId, currency |-> currency, amount |-> amount]

Item(name, amount) == [name |-> name, amount |-> amount]

InventoryDelta(ownerType, ownerId, op, name, amount) ==
    [ownerType |-> ownerType, ownerId |-> ownerId, op |-> op, item |-> Item(name, amount)]

EventInput(summary, moneyDeltas, inventoryDeltas) ==
    [summary |-> summary, details |-> None,
     moneyDeltas |-> moneyDeltas, inventoryDeltas |-> inventoryDeltas]

LoggedEvent(eventId, timestamp, playerId, sceneId, summary, detail, outcomes) ==
    [eventId |-> eventId, timestamp |-> timestamp, playerId |-> playerId,
     sceneId |-> sceneId, summary |-> summary, detail |-> detail, outcomes |-> outcomes]

\* review: Optional[ResolveReviewConfig]; present = FALSE stands for None
ResolveReviewConfig(include) == [present |-> TRUE, include |-> include]

NoReview == [present |-> FALSE, include |-> FALSE]

ResolveTurnRequest(playerId, sceneId, outcomes, review) ==
    [kind |-> "resolve_turn", playerId |-> playerId, sceneId |-> sceneId,
     outcomes |-> outcomes, review |-> review]

PrecheckRequest(hasProposal, summary, involvedNpcIds) ==
    [kind |-> "gpt_precheck", hasProposal |-> hasProposal, summary |-> summary,
     involvedNpcIds |-> involvedNpcIds]

(* ------------------------------- state --------------------------------- *)

VARIABLES
    log,      \* EVENT_LOG_FILE: the sequence of its lines, oldest first
    now,      \* the server clock read by datetime.utcnow()
    uuids,    \* how many ids uuid.uuid4() has drawn
    pc,       \* pc[p]: where request p stands in its handler
    req,      \* req[p]: the request p is serving, or last served
    idx,      \* idx[p]: resolve_turn's position in req.outcomes (1-based)
    event,    \* event[p]: the LoggedEvent p is about to append
    added,    \* added[p]: what p's current call has appended so far, each
              \* entry the line written and the line number it got (history)
    result,   \* result[p]: the response of p's last finished call
    players,  \* PLAYERS_FILE: the dict it holds, playerId -> player record
    loaded    \* loaded[p]: the dict p got from _load_players (a local)

vars == <<log, now, uuids, pc, req, idx, event, added, result, players, loaded>>

NoRequest == [kind |-> "none"]
NoEvent == LoggedEvent(NoEventId, NoTimestamp, None, None, None, None, <<>>)
NoResult == [kind |-> "none"]

\* the empty dict: what _read_json gives when the file does not exist
NoPlayers == [id \in {} |-> NoResult]

Init ==
    /\ log = <<>>
    /\ now = 1
    /\ uuids = 0
    /\ pc = [p \in Procs |-> "idle"]
    /\ req = [p \in Procs |-> NoRequest]
    /\ idx = [p \in Procs |-> 0]
    /\ event = [p \in Procs |-> NoEvent]
    /\ added = [p \in Procs |-> <<>>]
    /\ result = [p \in Procs |-> NoResult]
    /\ players = NoPlayers
    /\ loaded = [p \in Procs |-> NoPlayers]

(* --------------------------- the log file ------------------------------ *)

\* what open(path, "w") in place of open(path, "a") would do
_append_jsonl_mode_w(file, obj) == <<obj>>

\* an append that skips an event whose eventId the file already holds
_append_jsonl_skip_known_id(file, obj) ==
    IF \E i \in DOMAIN file : file[i].eventId = obj.eventId THEN file ELSE Append(file, obj)

\* _append_jsonl: open(path, "a") and one write of one line. The file is
\* opened with O_APPEND and the line leaves the buffer in a single write at
\* close, so the line goes whole to the end the file has at that moment
_append_jsonl(file, obj) == Append(file, obj)

\* the events request p may still append in its current call
Remaining(p) ==
    CASE pc[p] = "write" /\ req[p].kind = "append_event_log" -> 1
      [] pc[p] = "write" /\ req[p].kind = "resolve_turn" ->
            Len(req[p].outcomes) - idx[p] + 1
      [] pc[p] = "loop" -> Len(req[p].outcomes) - idx[p] + 1
      [] OTHER -> 0

RECURSIVE SumRemaining(_)
SumRemaining(S) ==
    IF S = {} THEN 0
    ELSE LET p == CHOOSE q \in S : TRUE IN Remaining(p) + SumRemaining(S \ {p})

\* room for n more lines and n more ids under the caps of the model
Room(n) ==
    /\ Len(log) + SumRemaining(Procs) + n <= MaxLog
    /\ uuids + SumRemaining(Procs) + n <= MaxUuid

\* datetime.utcnow(): the clock has stood still or moved on since the last read
utcnow == {t \in {now, now + 1} : t <= MaxClock}

(* ------------------------------ writers -------------------------------- *)

\* POST /api/logs/events, lines 714-717: the id and the timestamp are filled in
\* when the caller sent none; the event then goes to _append_jsonl
append_event_log(p, e) ==
    /\ pc[p] = "idle"
    /\ UNCHANGED <<players, loaded>>
    /\ Room(1)
    /\ \E t \in utcnow :
          /\ event' = [event EXCEPT ![p] =
                [e EXCEPT !.eventId = IF e.eventId = NoEventId THEN uuid4(uuids + 1) ELSE @,
                          !.timestamp = IF e.timestamp = NoTimestamp THEN t ELSE @]]
          /\ now' = IF e.timestamp = NoTimestamp THEN t ELSE now
    /\ uuids' = IF e.eventId = NoEventId THEN uuids + 1 ELSE uuids
    /\ req' = [req EXCEPT ![p] = [kind |-> "append_event_log", event |-> e]]
    /\ pc' = [pc EXCEPT ![p] = "write"]
    /\ UNCHANGED <<log, idx, added, result>>

\* POST /api/turns/resolve: the request arrives and the loop over
\* req.outcomes starts; req.review is carried by the request and never read
resolve_turn(p, r) ==
    /\ pc[p] = "idle"
    /\ UNCHANGED <<players, loaded>>
    /\ Room(Len(r.outcomes))
    /\ req' = [req EXCEPT ![p] = r]
    /\ idx' = [idx EXCEPT ![p] = 1]
    /\ pc' = [pc EXCEPT ![p] = "loop"]
    /\ UNCHANGED <<log, now, uuids, event, added, result>>

\* does the loop of resolve_turn have an outcome left, with review config gating it
resolve_turn_pending_if_reviewed(r, i) ==
    i <= Len(r.outcomes) /\ ~(r.review.present /\ r.review.include)

\* for outcome in req.outcomes: is there an outcome left at position i
resolve_turn_pending(r, i) == i <= Len(r.outcomes)

\* the event of the i-th outcome, with the outcomes taken from the far end
resolve_turn_event_reversed(r, i, id, ts) ==
    LET outcome == r.outcomes[Len(r.outcomes) - i + 1]
    IN LoggedEvent(id, ts, r.playerId, r.sceneId, outcome.summary, outcome.details, <<outcome>>)

\* lines 622-630: the LoggedEvent built for the i-th outcome of the request
resolve_turn_event(r, i, id, ts) ==
    LET outcome == r.outcomes[i]
    IN LoggedEvent(id, ts, r.playerId, r.sceneId, outcome.summary, outcome.details, <<outcome>>)

\* one turn of the loop up to the call of _append_jsonl
resolve_turn_loop(p) ==
    /\ pc[p] = "loop"
    /\ UNCHANGED <<players, loaded>>
    /\ resolve_turn_pending(req[p], idx[p])
    /\ \E t \in utcnow :
          /\ event' = [event EXCEPT ![p] = resolve_turn_event(req[p], idx[p], uuid4(uuids + 1), t)]
          /\ now' = t
    /\ uuids' = uuids + 1
    /\ pc' = [pc EXCEPT ![p] = "write"]
    /\ UNCHANGED <<log, req, idx, added, result>>

\* line 633: the loop is over and the handler answers
resolve_turn_return(p) ==
    /\ pc[p] = "loop"
    /\ UNCHANGED <<players, loaded>>
    /\ ~resolve_turn_pending(req[p], idx[p])
    /\ result' = [result EXCEPT ![p] =
            [kind |-> "resolve_turn", status |-> "applied", numEvents |-> Len(req[p].outcomes)]]
    /\ pc' = [pc EXCEPT ![p] = "done"]
    /\ UNCHANGED <<log, now, uuids, req, idx, event, added>>

\* the call of _append_jsonl (lines 631 and 719): the line reaches the file;
\* append_event_log then answers (line 720), resolve_turn loops
_append_jsonl_write(p) ==
    /\ pc[p] = "write"
    /\ UNCHANGED <<players, loaded>>
    /\ log' = _append_jsonl(log, event[p])
    /\ added' = [added EXCEPT ![p] = Append(@, [at |-> Len(log'), event |-> event[p]])]
    /\ IF req[p].kind = "resolve_turn"
          THEN /\ idx' = [idx EXCEPT ![p] = @ + 1]
               /\ pc' = [pc EXCEPT ![p] = "loop"]
               /\ UNCHANGED result
          ELSE /\ result' = [result EXCEPT ![p] =
                      [kind |-> "append_event_log", status |-> "ok", eventId |-> event[p].eventId]]
               /\ pc' = [pc EXCEPT ![p] = "done"]
               /\ UNCHANGED idx
    /\ UNCHANGED <<now, uuids, req, event>>

\* open() or write() raises OSError (the medium is unavailable): nothing is
\* written, no handler catches it, the request ends with an error response
\* and what the call appended before stays in the file
StorageFailure(p) ==
    /\ pc[p] = "write"
    /\ UNCHANGED <<players, loaded>>
    /\ result' = [result EXCEPT ![p] = [kind |-> req[p].kind, status |-> "error"]]
    /\ pc' = [pc EXCEPT ![p] = "done"]
    /\ UNCHANGED <<log, now, uuids, req, idx, event, added>>

(* ------------------------------ readers -------------------------------- *)

\* `if x:` on an Optional[str]: None and the empty string are falsy
Truthy(x) == x # None /\ x # ""

Min(a, b) == IF a <= b THEN a ELSE b
Max(a, b) == IF a >= b THEN a ELSE b

\* lines 737-740 with both tests dropped: every line passes
event_log_match_any(e, playerId, sceneId) == TRUE

\* lines 737-740: the line passes the playerId and sceneId filters
event_log_match(e, playerId, sceneId) ==
    /\ ~(Truthy(playerId) /\ e.playerId # playerId)
    /\ ~(Truthy(sceneId) /\ e.sceneId # sceneId)

\* one step of sorted(..., reverse=True): e, which came later in the input,
\* goes behind every event whose timestamp is greater or equal (the sort is
\* stable: equal timestamps keep their input order)
sorted_insert(s, e) ==
    LET k == Cardinality({i \in DOMAIN s : s[i].timestamp >= e.timestamp})
    IN SubSeq(s, 1, k) \o <<e>> \o SubSeq(s, k + 1, Len(s))

RECURSIVE sorted_reverse(_)
\* lines 743-745: sorted(events, key=timestamp, reverse=True)
sorted_reverse(events) ==
    IF events = <<>> THEN <<>>
    ELSE sorted_insert(sorted_reverse(SubSeq(events, 1, Len(events) - 1)), events[Len(events)])

\* events[:limit], with Python's reading of a negative stop
slice_to(events, limit) ==
    LET n == Len(events)
        stop == IF limit >= 0 THEN Min(limit, n) ELSE Max(n + limit, 0)
    IN SubSeq(events, 1, stop)

\* lines 729-746: the events get_event_log returns
event_log_events(file, playerId, sceneId, limit) ==
    slice_to(sorted_reverse(SelectSeq(file, LAMBDA e : event_log_match(e, playerId, sceneId))), limit)

\* GET /api/logs/events
get_event_log(p, playerId, sceneId, limit) ==
    /\ pc[p] = "idle"
    /\ UNCHANGED <<players, loaded>>
    /\ req' = [req EXCEPT ![p] = [kind |-> "get_event_log", playerId |-> playerId,
                                  sceneId |-> sceneId, limit |-> limit]]
    /\ result' = [result EXCEPT ![p] =
            [kind |-> "get_event_log", events |-> event_log_events(log, playerId, sceneId, limit)]]
    /\ pc' = [pc EXCEPT ![p] = "done"]
    /\ UNCHANGED <<log, now, uuids, idx, event, added>>

\* a Python dict, as the sequence of its <<key, value>> pairs in insertion order
DictKeys(d) == {d[i][1] : i \in DOMAIN d}

DictGet(d, k, default) ==
    IF k \in DictKeys(d) THEN d[CHOOSE i \in DOMAIN d : d[i][1] = k][2] ELSE default

DictSet(d, k, v) ==
    IF k \in DictKeys(d)
    THEN [d EXCEPT ![CHOOSE i \in DOMAIN d : d[i][1] = k] = <<k, v>>]
    ELSE Append(d, <<k, v>>)

\* line 807 with the sum dropped: the delta replaces the total
money_total_overwritten(totals, md) == md.amount

\* line 807: totals.get(cur, 0.0) + amt
money_total(totals, md) == DictGet(totals, md.currency, 0) + md.amount

RECURSIVE balances_deltas(_, _, _, _)
\* lines 800-807: for md in outcome.get("moneyDeltas", [])
balances_deltas(totals, mds, ownerType, ownerId) ==
    IF mds = <<>> THEN totals
    ELSE LET md == Head(mds)
             step == IF md.ownerType = ownerType /\ md.ownerId = ownerId
                     THEN DictSet(totals, md.currency, money_total(totals, md))
                     ELSE totals
         IN balances_deltas(step, Tail(mds), ownerType, ownerId)

RECURSIVE balances_outcomes(_, _, _, _)
\* line 799: for outcome in entry.get("outcomes", [])
balances_outcomes(totals, outcomes, ownerType, ownerId) ==
    IF outcomes = <<>> THEN totals
    ELSE balances_outcomes(balances_deltas(totals, Head(outcomes).moneyDeltas, ownerType, ownerId),
                           Tail(outcomes), ownerType, ownerId)

RECURSIVE balances_lines(_, _, _, _)
\* lines 792-798: for line in f
balances_lines(totals, file, ownerType, ownerId) ==
    IF file = <<>> THEN totals
    ELSE balances_lines(balances_outcomes(totals, Head(file).outcomes, ownerType, ownerId),
                        Tail(file), ownerType, ownerId)

\* lines 790-815: the balances get_balances returns
balances(file, ownerType, ownerId, currency) ==
    LET totals == balances_lines(<<>>, file, ownerType, ownerId)
        all == [i \in DOMAIN totals |-> [currency |-> totals[i][1], amount |-> totals[i][2]]]
    IN IF Truthy(currency) THEN SelectSeq(all, LAMBDA b : b.currency = currency) ELSE all

\* GET /api/wallets/{ownerType}/{ownerId}/balances
get_balances(p, ownerType, ownerId, currency) ==
    /\ pc[p] = "idle"
    /\ UNCHANGED <<players, loaded>>
    /\ req' = [req EXCEPT ![p] = [kind |-> "get_balances", ownerType |-> ownerType,
                                  ownerId |-> ownerId, currency |-> currency]]
    /\ result' = [result EXCEPT ![p] =
            [kind |-> "get_balances", balances |-> balances(log, ownerType, ownerId, currency)]]
    /\ pc' = [pc EXCEPT ![p] = "done"]
    /\ UNCHANGED <<log, now, uuids, idx, event, added>>

\* lines 855-858 with a floor at zero: remove never goes below nothing
inventory_amount_floored(amount, op, delta) ==
    CASE op = "add" -> amount + delta
      [] op = "remove" -> Max(amount - delta, 0)
      [] op = "set" -> delta
      [] OTHER -> amount

\* lines 851-862: the amount of the item after one delta
inventory_amount(amount, op, delta) ==
    CASE op = "add" -> amount + delta
      [] op = "remove" -> amount - delta
      [] op = "set" -> delta
      [] OTHER -> amount

RECURSIVE inventory_deltas(_, _, _, _)
\* lines 833-864: for invd in outcome.get("inventoryDeltas", [])
inventory_deltas(stock, invds, ownerType, ownerId) ==
    IF invds = <<>> THEN stock
    ELSE LET invd == Head(invds)
             name == invd.item.name
             item == DictGet(stock, name, [name |-> name, amount |-> 0])
             step == IF invd.ownerType = ownerType /\ invd.ownerId = ownerId /\ Truthy(name)
                     THEN DictSet(stock, name,
                            [item EXCEPT !.amount = inventory_amount(@, invd.op, invd.item.amount)])
                     ELSE stock
         IN inventory_deltas(step, Tail(invds), ownerType, ownerId)

RECURSIVE inventory_outcomes(_, _, _, _)
\* line 832: for outcome in entry.get("outcomes", [])
inventory_outcomes(stock, outcomes, ownerType, ownerId) ==
    IF outcomes = <<>> THEN stock
    ELSE inventory_outcomes(inventory_deltas(stock, Head(outcomes).inventoryDeltas, ownerType, ownerId),
                            Tail(outcomes), ownerType, ownerId)

RECURSIVE inventory_lines(_, _, _, _)
\* lines 825-831: for line in f
inventory_lines(stock, file, ownerType, ownerId) ==
    IF file = <<>> THEN stock
    ELSE inventory_lines(inventory_outcomes(stock, Head(file).outcomes, ownerType, ownerId),
                         Tail(file), ownerType, ownerId)

\* lines 823-868: the items get_inventory_snapshot returns
inventory_items(file, ownerType, ownerId) ==
    LET stock == inventory_lines(<<>>, file, ownerType, ownerId)
        values == [i \in DOMAIN stock |-> stock[i][2]]
    IN SelectSeq(values, LAMBDA i : i.amount # 0)

\* GET /api/inventory/{ownerType}/{ownerId}/snapshot
get_inventory_snapshot(p, ownerType, ownerId) ==
    /\ pc[p] = "idle"
    /\ UNCHANGED <<players, loaded>>
    /\ req' = [req EXCEPT ![p] = [kind |-> "get_inventory_snapshot", ownerType |-> ownerType,
                                  ownerId |-> ownerId]]
    /\ result' = [result EXCEPT ![p] =
            [kind |-> "get_inventory_snapshot", ownerType |-> ownerType, ownerId |-> ownerId,
             items |-> inventory_items(log, ownerType, ownerId)]]
    /\ pc' = [pc EXCEPT ![p] = "done"]
    /\ UNCHANGED <<log, now, uuids, idx, event, added>>

(* ------------------------------ precheck ------------------------------- *)

\* the PrecheckResult built at lines 475-484
PrecheckResult(payload) ==
    LET summary == IF payload.hasProposal THEN payload.summary ELSE ""
    IN [kind |-> "gpt_precheck",
        summary |-> IF summary \in {"", None} THEN "No summary provided" ELSE summary,
        logicConsistent |-> TRUE,
        knowledgeLeaksDetected |-> FALSE,
        npcIndividualityMaintained |-> TRUE,
        gmAuthorityRespected |-> TRUE,
        storyAdvancing |-> TRUE,
        errors |-> <<>>]

\* POST /api/gpt-precheck: one step, no file is touched
gpt_precheck(p, payload) ==
    /\ pc[p] = "idle"
    /\ UNCHANGED <<players, loaded>>
    /\ req' = [req EXCEPT ![p] = payload]
    /\ result' = [result EXCEPT ![p] = PrecheckResult(payload)]
    /\ pc' = [pc EXCEPT ![p] = "done"]
    /\ UNCHANGED <<log, now, uuids, idx, event, added>>

(* ------------------------------ players -------------------------------- *)

Balance(currency, amount) == [currency |-> currency, amount |-> amount]

\* stats: Optional[PlayerStats] of the request; present = FALSE stands for None
PlayerStats(money) == [present |-> TRUE, money |-> money]

NoStats == [present |-> FALSE, money |-> 0]

\* wallets: Optional[List[Balance]] of the request; present = FALSE stands for None
Wallets(list) == [present |-> TRUE, list |-> list]

NoWallets == [present |-> FALSE, list |-> <<>>]

UpdatePlayerRequest(name, location, stats, wallets) ==
    [name |-> name, location |-> location, stats |-> stats, wallets |-> wallets]

\* Player(playerId=playerId): the record with its defaults
Player(playerId) ==
    [playerId |-> playerId, name |-> None, location |-> None,
     stats |-> [money |-> 0], wallets |-> <<>>]

\* `if not data` with the test dropped: every record is taken for missing
player_missing_always(file, playerId) == TRUE

\* players.get(playerId) gives None (`if not data`, `if existing`)
player_missing(file, playerId) == playerId \notin DOMAIN file

\* lines 580-583: the stored player, or a new one
update_player_existing(file, playerId) ==
    IF player_missing(file, playerId) THEN Player(playerId) ELSE file[playerId]

\* lines 585-592: every field the request carries (is not None) replaces the
\* stored one
update_player_merge(player, payload) ==
    [player EXCEPT
        !.name = IF payload.name # None THEN payload.name ELSE @,
        !.location = IF payload.location # None THEN payload.location ELSE @,
        !.stats = IF payload.stats.present THEN [money |-> payload.stats.money] ELSE @,
        !.wallets = IF payload.wallets.present THEN payload.wallets.list ELSE @]

\* PATCH /api/player/{playerId}, line 577: the whole file is loaded
update_player(p, playerId, payload) ==
    /\ pc[p] = "idle"
    /\ loaded' = [loaded EXCEPT ![p] = players]
    /\ req' = [req EXCEPT ![p] = [kind |-> "update_player", playerId |-> playerId,
                                  payload |-> payload]]
    /\ pc' = [pc EXCEPT ![p] = "save"]
    /\ UNCHANGED <<log, now, uuids, idx, event, added, result, players>>

\* GET /api/player/{playerId}, lines 561-569: the whole file is loaded; a
\* known player is returned, an unknown one is about to be created
get_player(p, playerId) ==
    /\ pc[p] = "idle"
    /\ loaded' = [loaded EXCEPT ![p] = players]
    /\ req' = [req EXCEPT ![p] = [kind |-> "get_player", playerId |-> playerId]]
    /\ IF player_missing(players, playerId)
          THEN /\ pc' = [pc EXCEPT ![p] = "save"]
               /\ UNCHANGED result
          ELSE /\ pc' = [pc EXCEPT ![p] = "done"]
               /\ result' = [result EXCEPT ![p] =
                      [kind |-> "get_player", player |-> players[playerId]]]
    /\ UNCHANGED <<log, now, uuids, idx, event, added, players>>

\* the record the request writes: the merged one (line 594), or the default
\* one (lines 565-566)
saved_player(p) ==
    IF req[p].kind = "update_player"
    THEN update_player_merge(update_player_existing(loaded[p], req[p].playerId), req[p].payload)
    ELSE Player(req[p].playerId)

\* _save_players (lines 567 and 595): the dict the request loaded, with its
\* one entry set, replaces the whole file; the handler answers
_save_players(p) ==
    /\ pc[p] = "save"
    /\ players' = (req[p].playerId :> saved_player(p)) @@ loaded[p]
    /\ result' = [result EXCEPT ![p] = [kind |-> req[p].kind, player |-> saved_player(p)]]
    /\ pc' = [pc EXCEPT ![p] = "done"]
    /\ UNCHANGED <<log, now, uuids, req, idx, event, added, loaded>>

(* ------------------------- end of a request ---------------------------- *)

\* the response has gone out: the handler's locals are gone and the slot
\* takes the next request
Finish(p) ==
    /\ pc[p] = "done"
    /\ pc' = [pc EXCEPT ![p] = "idle"]
    /\ req' = [req EXCEPT ![p] = NoRequest]
    /\ idx' = [idx EXCEPT ![p] = 0]
    /\ event' = [event EXCEPT ![p] = NoEvent]
    /\ added' = [added EXCEPT ![p] = <<>>]
    /\ result' = [result EXCEPT ![p] = NoResult]
    /\ loaded' = [loaded EXCEPT ![p] = NoPlayers]
    /\ UNCHANGED <<log, now, uuids, players>>

(* ------------------- requests of the concurrent model ------------------- *)

Pay == EventInput("pay", <<MoneyDelta("player", "p1", "USD", 50)>>, <<>>)
Take == EventInput("take", <<>>, <<InventoryDelta("player", "p1", "add", "knife", 1)>>)

\* the events callers post: one bare, one carrying its own id and timestamp
PostedEvents ==
    { LoggedEvent(NoEventId, NoTimestamp, "p1", None, "walk", None, <<>>),
      LoggedEvent(ClientId(1), 0, "p1", "s1", "talk", None, <<>>) }

\* the turns callers resolve: two outcomes, and none
Turns ==
    { ResolveTurnRequest("p1", "s1", <<Pay, Take>>, NoReview),
      ResolveTurnRequest("p2", None, <<>>, NoReview) }

\* requests run concurrently: posted events and turns
Next ==
    \E p \in Procs :
        \/ \E e \in PostedEvents : append_event_log(p, e)
        \/ \E r \in Turns : resolve_turn(p, r)
        \/ resolve_turn_loop(p)
        \/ resolve_turn_return(p)
        \/ _append_jsonl_write(p)
        \/ StorageFailure(p)

Spec == Init /\ [][Next]_vars

(* ------------------- requests of the review model ----------------------- *)

\* the same turn without a review configuration, with review on and with
\* review off
ReviewedTurns ==
    { ResolveTurnRequest("p2", None, <<Take>>, NoReview),
      ResolveTurnRequest("p2", None, <<Take>>, ResolveReviewConfig(TRUE)),
      ResolveTurnRequest("p2", None, <<Take>>, ResolveReviewConfig(FALSE)) }

\* the proposals callers send to the precheck
Proposals ==
    { PrecheckRequest(TRUE, "Marcus leaves", <<"n1", "n1">>),
      PrecheckRequest(TRUE, "Marcus leaves", <<"n1", "n2">>),
      PrecheckRequest(FALSE, None, <<>>) }

\* requests run concurrently: prechecks and turns with review configurations
NextReview ==
    \E p \in Procs :
        \/ \E payload \in Proposals : gpt_precheck(p, payload)
        \/ \E r \in ReviewedTurns : resolve_turn(p, r)
        \/ resolve_turn_loop(p)
        \/ resolve_turn_return(p)
        \/ _append_jsonl_write(p)
        \/ StorageFailure(p)

SpecReview == Init /\ [][NextReview]_vars

(* ------------- one client, one request after another -------------------- *)

\* the steps every writing request of the client goes through, the log file
\* being available
ClientWrites ==
    \/ resolve_turn_loop(Client)
    \/ resolve_turn_return(Client)
    \/ _append_jsonl_write(Client)
    \/ Finish(Client)

\* events of two players and two scenes, one with the caller's own timestamp
LogEvents ==
    { LoggedEvent(NoEventId, NoTimestamp, "p1", None, "walk", None, <<>>),
      LoggedEvent(NoEventId, NoTimestamp, "p2", "s1", "wait", None, <<>>),
      LoggedEvent(ClientId(1), 0, "p1", "s1", "talk", None, <<>>) }

LogTurns == { ResolveTurnRequest("p1", "s1", <<Pay, Take>>, NoReview) }

PlayerFilters == {None, "", "p1"}
SceneFilters == {None, "s1"}
\* limit: int = Query(50)
DefaultLimit == 50

Limits == {-1, 0, 1, DefaultLimit}

NextLog ==
    \/ \E e \in LogEvents : append_event_log(Client, e)
    \/ \E r \in LogTurns : resolve_turn(Client, r)
    \/ \E playerId \in PlayerFilters, sceneId \in SceneFilters, limit \in Limits :
            get_event_log(Client, playerId, sceneId, limit)
    \/ ClientWrites

SpecLog == Init /\ [][NextLog]_vars

Money(deltas) == EventInput("money", deltas, <<>>)

\* events whose outcomes move money of several owners in several currencies
MoneyEvents ==
    { LoggedEvent(NoEventId, NoTimestamp, "p1", None, "earn", None,
                  <<Money(<<MoneyDelta("player", "p1", "USD", 50)>>)>>),
      LoggedEvent(NoEventId, NoTimestamp, "p1", None, "spend", None,
                  <<Money(<<MoneyDelta("player", "p1", "USD", -20)>>)>>),
      LoggedEvent(NoEventId, NoTimestamp, "p1", None, "trade", None,
                  <<Money(<<MoneyDelta("player", "p1", "EUR", 5)>>),
                    Money(<<MoneyDelta("npc", "p1", "USD", 7)>>)>>),
      LoggedEvent(NoEventId, NoTimestamp, "p2", None, "split", None,
                  <<Money(<<MoneyDelta("player", "p2", "USD", 3),
                            MoneyDelta("player", "p1", "USD", 1)>>)>>) }

MoneyTurns == { ResolveTurnRequest("p1", "s1", <<Pay>>, NoReview) }

OwnerTypes == {"player", "npc"}
OwnerIds == {"p1", "p2"}
CurrencyFilters == {None, "", "USD", "EUR"}

NextBalances ==
    \/ \E e \in MoneyEvents : append_event_log(Client, e)
    \/ \E r \in MoneyTurns : resolve_turn(Client, r)
    \/ \E ownerType \in OwnerTypes, ownerId \in OwnerIds, currency \in CurrencyFilters :
            get_balances(Client, ownerType, ownerId, currency)
    \/ ClientWrites

SpecBalances == Init /\ [][NextBalances]_vars

Stock(deltas) == EventInput("stock", <<>>, deltas)

\* events whose outcomes add, remove and set items, one with an operation
\* that is none of the three and one with an item without a name
InventoryEvents ==
    { LoggedEvent(NoEventId, NoTimestamp, "p1", None, "find", None,
                  <<Stock(<<InventoryDelta("player", "p1", "add", "knife", 1)>>)>>),
      LoggedEvent(NoEventId, NoTimestamp, "p1", None, "lose", None,
                  <<Stock(<<InventoryDelta("player", "p1", "remove", "knife", 1)>>)>>),
      LoggedEvent(NoEventId, NoTimestamp, "p1", None, "count", None,
                  <<Stock(<<InventoryDelta("player", "p1", "set", "knife", 3)>>)>>),
      LoggedEvent(NoEventId, NoTimestamp, "p1", None, "swap", None,
                  <<Stock(<<InventoryDelta("player", "p1", "remove", "rope", 2),
                            InventoryDelta("npc", "p1", "add", "knife", 5)>>),
                    Stock(<<InventoryDelta("player", "p1", "drop", "knife", 1)>>)>>),
      LoggedEvent(NoEventId, NoTimestamp, "p1", None, "loot", None,
                  <<Stock(<<InventoryDelta("player", "p1", "add", "", 1)>>)>>) }

InventoryTurns == { ResolveTurnRequest("p1", "s1", <<Take>>, NoReview) }

NextInventory ==
    \/ \E e \in InventoryEvents : append_event_log(Client, e)
    \/ \E r \in InventoryTurns : resolve_turn(Client, r)
    \/ \E ownerType \in OwnerTypes, ownerId \in OwnerIds :
            get_inventory_snapshot(Client, ownerType, ownerId)
    \/ ClientWrites

SpecInventory == Init /\ [][NextInventory]_vars

(* ------------------- requests of the players model ---------------------- *)

PlayerIds == {"p1", "p2"}

\* what callers patch: one field, an empty one, none, several
PlayerUpdates ==
    { UpdatePlayerRequest("Ann", None, NoStats, NoWallets),
      UpdatePlayerRequest("", None, NoStats, NoWallets),
      UpdatePlayerRequest(None, "Bar", NoStats, NoWallets),
      UpdatePlayerRequest(None, None, NoStats, NoWallets),
      UpdatePlayerRequest(None, None, PlayerStats(5), Wallets(<<Balance("USD", 10)>>)),
      UpdatePlayerRequest(None, None, NoStats, Wallets(<<>>)) }

\* requests run concurrently: player updates and player reads
NextPlayers ==
    \E p \in Procs :
        \/ \E playerId \in PlayerIds, payload \in PlayerUpdates : update_player(p, playerId, payload)
        \/ \E playerId \in PlayerIds : get_player(p, playerId)
        \/ _save_players(p)

SpecPlayers == Init /\ [][NextPlayers]_vars

(* ------------- one client reading and writing both files ---------------- *)

\* an id no event and no player record carries
UnknownId == "p9"

\* one event moving money and an item of player p1
ReadEvents ==
    { LoggedEvent(NoEventId, NoTimestamp, "p1", "s1", "deal", None, <<Pay, Take>>) }

ReadTurns == { ResolveTurnRequest("p1", "s1", <<Pay>>, NoReview) }

ReadPlayerFilters == {None, "p1", UnknownId}
ReadOwnerIds == {"p1", UnknownId}
ReadCurrencyFilters == {None, "EUR"}

ReadUpdates == { UpdatePlayerRequest("Ann", None, NoStats, NoWallets) }

\* the client appends events, patches players and calls the four read
\* endpoints, with known and with unknown ids
NextRead ==
    \/ \E e \in ReadEvents : append_event_log(Client, e)
    \/ \E r \in ReadTurns : resolve_turn(Client, r)
    \/ \E playerId \in ReadPlayerFilters, sceneId \in SceneFilters :
            get_event_log(Client, playerId, sceneId, DefaultLimit)
    \/ \E ownerId \in ReadOwnerIds, currency \in ReadCurrencyFilters :
            get_balances(Client, "player", ownerId, currency)
    \/ \E ownerId \in ReadOwnerIds : get_inventory_snapshot(Client, "player", ownerId)
    \/ \E playerId \in PlayerIds, payload \in ReadUpdates : update_player(Client, playerId, payload)
    \/ \E playerId \in PlayerIds : get_player(Client, playerId)
    \/ _save_players(Client)
    \/ ClientWrites

SpecRead == Init /\ [][NextRead]_vars

(* ======================= properties of the ledger ======================= *)

IsPrefix(s, t) == Len(s) <= Len(t) /\ SubSeq(t, 1, Len(s)) = s

RECURSIVE IsSubsequence(_, _)
\* s is t with some of its elements left out
IsSubsequence(s, t) ==
    IF s = <<>> THEN TRUE
    ELSE IF t = <<>> THEN FALSE
    ELSE IF Head(s) = Head(t) THEN IsSubsequence(Tail(s), Tail(t))
    ELSE IsSubsequence(s, Tail(t))

\* an event without what the server draws for it
Content(e) == [e EXCEPT !.eventId = NoEventId, !.timestamp = NoTimestamp]

\* the client's request has been answered and the answer is still at hand
Answered(kind) == pc[Client] = "done" /\ req[Client].kind = kind

(* ------------------------------- C1 ------------------------------------ *)

\* C1 as stated: for every fixed filter (playerId, sceneId, limit), what
\* get_event_log returns before a step is a prefix of what it returns after.
C1_QueryResultIsPrefix ==
    [][\A playerId \in PlayerFilters, sceneId \in SceneFilters, limit \in Limits :
          IsPrefix(event_log_events(log, playerId, sceneId, limit),
                   event_log_events(log', playerId, sceneId, limit))]_vars

\* C1 as amended: the log file is append-only - its lines before a step are a
\* prefix of its lines after it, so no stored event changes identity or
\* content - and for every fixed (playerId, sceneId) filter with a limit that
\* does not cut the result, what get_event_log returned before the step is a
\* subsequence of what it returns after: every event stays, unchanged and in
\* the same relative order, while newer events go in front of or between them.
C1_LogIsAppendOnly ==
    [][/\ IsPrefix(log, log')
       /\ \A playerId \in PlayerFilters, sceneId \in SceneFilters :
            IsSubsequence(event_log_events(log, playerId, sceneId, DefaultLimit),
                          event_log_events(log', playerId, sceneId, DefaultLimit))]_vars

\* get_event_log has answered on a log of several events, newest first
C1_Witness ==
    /\ Answered("get_event_log")
    /\ req[Client].limit = DefaultLimit
    /\ Len(result[Client].events) >= 2
    /\ Len(log) >= 2
    /\ result[Client].events[1] = log[Len(log)]
    /\ result[Client].events[Len(result[Client].events)] = log[1]

(* ------------------------------- C2 ------------------------------------ *)

\* where in the file the MoneyDeltas of (ownerType, ownerId, currency) stand:
\* <<line, outcome, delta>>
MoneyPlaces(file, ownerType, ownerId, currency) ==
    UNION { UNION { { <<i, j, k>> : k \in { k \in DOMAIN file[i].outcomes[j].moneyDeltas :
                        LET md == file[i].outcomes[j].moneyDeltas[k]
                        IN md.ownerType = ownerType /\ md.ownerId = ownerId
                           /\ md.currency = currency } } :
                    j \in DOMAIN file[i].outcomes } :
            i \in DOMAIN file }

RECURSIVE SumMoney(_, _)
SumMoney(file, places) ==
    IF places = {} THEN 0
    ELSE LET x == CHOOSE y \in places : TRUE
         IN file[x[1]].outcomes[x[2]].moneyDeltas[x[3]].amount + SumMoney(file, places \ {x})

Currencies == {"USD", "EUR"}

\* C2: every balance get_balances reports for (ownerType, ownerId) is the sum
\* of the amounts of all MoneyDeltas of the log with exactly that owner type,
\* owner id and currency; a currency is reported once, and exactly when the
\* log holds a delta for the key (and the currency filter, if set, names it).
C2_BalanceIsSumOfDeltas ==
    Answered("get_balances") =>
        LET q == req[Client]
            bs == result[Client].balances
            Places(c) == MoneyPlaces(log, q.ownerType, q.ownerId, c)
        IN /\ \A i \in DOMAIN bs : bs[i].amount = SumMoney(log, Places(bs[i].currency))
           /\ \A i, j \in DOMAIN bs : bs[i].currency = bs[j].currency => i = j
           /\ {bs[i].currency : i \in DOMAIN bs} =
                {c \in Currencies : Places(c) # {} /\ (Truthy(q.currency) => c = q.currency)}

\* +50 then -20 for (player, p1, USD), among deltas of other keys: 30
C2_Witness ==
    /\ Answered("get_balances")
    /\ req[Client].ownerType = "player" /\ req[Client].ownerId = "p1"
    /\ Cardinality(MoneyPlaces(log, "player", "p1", "USD")) = 2
    /\ MoneyPlaces(log, "npc", "p1", "USD") # {}
    /\ \E i \in DOMAIN result[Client].balances :
            result[Client].balances[i] = [currency |-> "USD", amount |-> 30]

(* ------------------------------- C3 ------------------------------------ *)

\* where in the file the InventoryDeltas of (ownerType, ownerId, name) stand
InventoryPlaces(file, ownerType, ownerId, name) ==
    UNION { UNION { { <<i, j, k>> : k \in { k \in DOMAIN file[i].outcomes[j].inventoryDeltas :
                        LET invd == file[i].outcomes[j].inventoryDeltas[k]
                        IN invd.ownerType = ownerType /\ invd.ownerId = ownerId
                           /\ invd.item.name = name } } :
                    j \in DOMAIN file[i].outcomes } :
            i \in DOMAIN file }

DeltaAt(file, x) == file[x[1]].outcomes[x[2]].inventoryDeltas[x[3]]

\* x was appended before y
Before(x, y) ==
    \/ x[1] < y[1]
    \/ x[1] = y[1] /\ x[2] < y[2]
    \/ x[1] = y[1] /\ x[2] = y[2] /\ x[3] < y[3]

RECURSIVE SumSigned(_, _)
SumSigned(file, places) ==
    IF places = {} THEN 0
    ELSE LET x == CHOOSE y \in places : TRUE
             d == DeltaAt(file, x)
             signed == CASE d.op = "add" -> d.item.amount
                         [] d.op = "remove" -> 0 - d.item.amount
                         [] OTHER -> 0
         IN signed + SumSigned(file, places \ {x})

\* the quantity of the item: the amount of the last set (zero when there is
\* none) plus what was added and minus what was removed after it
Quantity(file, ownerType, ownerId, name) ==
    LET places == InventoryPlaces(file, ownerType, ownerId, name)
        sets == {x \in places : DeltaAt(file, x).op = "set"}
    IN IF sets = {} THEN SumSigned(file, places)
       ELSE LET last == CHOOSE x \in sets : \A y \in sets : y = x \/ Before(y, x)
            IN DeltaAt(file, last).item.amount
               + SumSigned(file, {x \in places : Before(last, x)})

ItemNames == {"knife", "rope", ""}

\* the snapshot agrees with the fold for the item names in Names
SnapshotIsFold(Names) ==
    Answered("get_inventory_snapshot") =>
        LET q == req[Client]
            items == result[Client].items
        IN /\ \A i, j \in DOMAIN items : items[i].name = items[j].name => i = j
           /\ \A name \in Names :
                LET quantity == Quantity(log, q.ownerType, q.ownerId, name)
                IN /\ (\E i \in DOMAIN items : items[i].name = name) <=> quantity # 0
                   /\ \A i \in DOMAIN items : items[i].name = name => items[i].amount = quantity

\* C3 as stated: for every item name, the snapshot holds the folded quantity,
\* unclamped, and the name is in the snapshot exactly when it is not zero.
C3_SnapshotIsFoldOfEveryName == SnapshotIsFold(ItemNames)

\* C3 as amended: the same for every item name that is not empty; deltas on
\* an item whose name is empty are skipped and never show in the snapshot.
C3_SnapshotIsFoldOfNamedItems ==
    /\ SnapshotIsFold(ItemNames \ {""})
    /\ Answered("get_inventory_snapshot") =>
            \A i \in DOMAIN result[Client].items : result[Client].items[i].name # ""

\* add knife 1 then remove knife 1: knife is not in the snapshot, while rope,
\* removed and never added, is there with a negative quantity
C3_Witness ==
    /\ Answered("get_inventory_snapshot")
    /\ req[Client].ownerType = "player" /\ req[Client].ownerId = "p1"
    /\ \E x, y \in InventoryPlaces(log, "player", "p1", "knife") :
            /\ Before(x, y)
            /\ DeltaAt(log, x).op = "add" /\ DeltaAt(log, y).op = "remove"
    /\ \A i \in DOMAIN result[Client].items : result[Client].items[i].name # "knife"
    /\ \E i \in DOMAIN result[Client].items : result[Client].items[i] = [name |-> "rope", amount |-> -2]

(* ------------------------------- C4 ------------------------------------ *)

RECURSIVE SumAdded(_)
SumAdded(S) ==
    IF S = {} THEN 0
    ELSE LET p == CHOOSE q \in S : TRUE IN Len(added[p]) + SumAdded(S \ {p})

\* C4: under every interleaving the log holds exactly one line per append
\* made, every appended event stands whole at the line it was written to,
\* and no two appends share a line.
C4_EveryAppendHasItsOwnLine ==
    /\ Len(log) = SumAdded(Procs)
    /\ \A p \in Procs : \A k \in DOMAIN added[p] :
            /\ added[p][k].at \in DOMAIN log
            /\ log[added[p][k].at] = added[p][k].event
    /\ \A p, q \in Procs : \A k \in DOMAIN added[p], l \in DOMAIN added[q] :
            added[p][k].at = added[q][l].at => p = q /\ k = l

\* every request posted one event, all were in flight together, and the one
\* that drew its id first wrote last
C4_Witness ==
    /\ \A p \in Procs :
            pc[p] = "done" /\ req[p].kind = "append_event_log" /\ Len(added[p]) = 1
    /\ Len(log) = NumReq
    /\ \E p \in Procs :
            added[p][1].event.eventId = uuid4(1) /\ added[p][1].at = NumReq

(* ------------------------------- C5 ------------------------------------ *)

\* C5: a resolve_turn that ended in a storage failure has left none of its
\* events in the log.
C5_FailedTurnLeavesNothing ==
    \A p \in Procs :
        (pc[p] = "done" /\ req[p].kind = "resolve_turn" /\ result[p].status = "error")
            => added[p] = <<>>

(* ------------------------------- C6 ------------------------------------ *)

\* C6: the events a resolve_turn has appended are, in log order, the events
\* of the first outcomes of the request in proposal order, one per outcome,
\* each with the request's playerId and sceneId and that single outcome; and
\* when the call answers, numEvents is the number of events it appended,
\* which is the number of outcomes.
C6_TurnAppendsItsOutcomesInOrder ==
    \A p \in Procs : req[p].kind = "resolve_turn" =>
        LET r == req[p]
            a == added[p]
        IN /\ Len(a) <= Len(r.outcomes)
           /\ \A k \in DOMAIN a :
                /\ a[k].at \in DOMAIN log
                /\ log[a[k].at] = a[k].event
                /\ a[k].event.playerId = r.playerId
                /\ a[k].event.sceneId = r.sceneId
                /\ a[k].event.summary = r.outcomes[k].summary
                /\ a[k].event.outcomes = <<r.outcomes[k]>>
                /\ k > 1 => a[k - 1].at < a[k].at
           /\ (pc[p] = "done" /\ result[p].status = "applied") =>
                /\ result[p].numEvents = Len(a)
                /\ Len(a) = Len(r.outcomes)

\* a turn of two outcomes has answered, and another request's event went
\* into the log between its two events
C6_Witness ==
    \E p \in Procs :
        /\ pc[p] = "done" /\ req[p].kind = "resolve_turn"
        /\ result[p].status = "applied" /\ result[p].numEvents = 2
        /\ added[p][2].at = added[p][1].at + 2

(* ------------------------------- C7 ------------------------------------ *)

\* C7: the timestamps of the log are non-decreasing in append order.
C7_TimestampsNeverGoBack ==
    \A i, j \in DOMAIN log : i < j => log[i].timestamp <= log[j].timestamp

(* ------------------------------- C8 ------------------------------------ *)

\* C8: no two events of the log have the same eventId.
C8_EventIdsAreDistinct ==
    \A i, j \in DOMAIN log : log[i].eventId = log[j].eventId => i = j

(* ------------------------------- C9 ------------------------------------ *)

HasDuplicates(ids) == \E i, j \in DOMAIN ids : i # j /\ ids[i] = ids[j]

\* C9: the precheck reports an individuality violation exactly when
\* involvedNpcIds holds an id more than once.
C9_DuplicateNpcIdsAreReported ==
    \A p \in Procs : (pc[p] = "done" /\ req[p].kind = "gpt_precheck") =>
        ((~result[p].npcIndividualityMaintained /\ result[p].errors # <<>>)
            <=> HasDuplicates(req[p].involvedNpcIds))

(* ------------------------------- C10 ----------------------------------- *)

\* two answered turns that differ at most in their review configuration and
\* did not meet a storage failure: same answer, same events
ReviewDoesNotDecide ==
    \A p, q \in Procs :
        ( /\ pc[p] = "done" /\ req[p].kind = "resolve_turn" /\ result[p].status # "error"
          /\ pc[q] = "done" /\ req[q].kind = "resolve_turn" /\ result[q].status # "error"
          /\ req[p].playerId = req[q].playerId
          /\ req[p].sceneId = req[q].sceneId
          /\ req[p].outcomes = req[q].outcomes )
        => /\ result[p] = result[q]
           /\ result[p].status = "applied"
           /\ Len(added[p]) = Len(added[q])
           /\ \A k \in DOMAIN added[p] :
                /\ Content(added[p][k].event) = Content(added[q][k].event)
                /\ log[added[p][k].at] = added[p][k].event

\* the step in which some request gets its answer from gpt_precheck
PrecheckAnswers == \E p \in Procs : pc[p] = "idle" /\ pc'[p] = "done" /\ req'[p].kind = "gpt_precheck"

\* C10: turns that differ only in their review configuration append the same
\* events and get the same answer, no turn is turned down (every turn that
\* met no storage failure is applied), and a gpt_precheck leaves the log as
\* it is.
C10_PrecheckIsAdvisory ==
    /\ []ReviewDoesNotDecide
    /\ [][PrecheckAnswers => log' = log]_vars

\* the same turn went through twice, once with review on and once without a
\* review configuration
C10_Witness ==
    \E p, q \in Procs :
        /\ pc[p] = "done" /\ req[p].kind = "resolve_turn" /\ result[p].status = "applied"
        /\ pc[q] = "done" /\ req[q].kind = "resolve_turn" /\ result[q].status = "applied"
        /\ req[p].outcomes = req[q].outcomes /\ req[p].outcomes # <<>>
        /\ req[p].review.present /\ req[p].review.include
        /\ ~req[q].review.present
        /\ Len(log) = 2

(* ------------------------------- C11 ----------------------------------- *)

\* an incoming value that is there and not empty
PresentAndNotEmpty(x) == x # None /\ x # ""

\* C11: the record update_player stores and returns has, field by field, the
\* incoming value when that is present and not empty and the stored value
\* otherwise (the stored record being the one loaded, or the defaults for a
\* new player).
C11_MergeNeverErasesAKnownField ==
    \A p \in Procs : (pc[p] = "done" /\ req[p].kind = "update_player") =>
        LET stored == IF req[p].playerId \in DOMAIN loaded[p]
                      THEN loaded[p][req[p].playerId] ELSE Player(req[p].playerId)
            incoming == req[p].payload
            merged == result[p].player
        IN /\ merged.name = IF PresentAndNotEmpty(incoming.name) THEN incoming.name ELSE stored.name
           /\ merged.location =
                IF PresentAndNotEmpty(incoming.location) THEN incoming.location ELSE stored.location
           /\ merged.stats =
                IF incoming.stats.present THEN [money |-> incoming.stats.money] ELSE stored.stats
           /\ merged.wallets =
                IF incoming.wallets.present /\ incoming.wallets.list # <<>>
                THEN incoming.wallets.list ELSE stored.wallets

(* ------------------------------- C13 ----------------------------------- *)

PlayerKinds == {"update_player", "get_player"}

\* C13: when two requests on different players have both answered, the
\* players file holds what each of them stored or returned.
C13_NoPlayerUpdateIsLost ==
    \A p, q \in Procs :
        ( /\ p # q
          /\ pc[p] = "done" /\ req[p].kind \in PlayerKinds
          /\ pc[q] = "done" /\ req[q].kind \in PlayerKinds
          /\ req[p].playerId # req[q].playerId )
        => /\ req[p].playerId \in DOMAIN players
           /\ players[req[p].playerId] = result[p].player

(* ------------------------------- C12 ----------------------------------- *)

\* no line of the file passes the (playerId, sceneId) filter
NoEventMatches(file, playerId, sceneId) ==
    \A i \in DOMAIN file :
        \/ Truthy(playerId) /\ file[i].playerId # playerId
        \/ Truthy(sceneId) /\ file[i].sceneId # sceneId

\* no MoneyDelta of the file is of (ownerType, ownerId) in the asked currency
NoMoneyMatches(file, ownerType, ownerId, currency) ==
    \A c \in Currencies :
        (Truthy(currency) => c = currency) => MoneyPlaces(file, ownerType, ownerId, c) = {}

\* no InventoryDelta of the file is of (ownerType, ownerId)
NoInventoryMatches(file, ownerType, ownerId) ==
    \A name \in ItemNames : InventoryPlaces(file, ownerType, ownerId, name) = {}

\* C12: when the log holds no entry that matches the request - the log is
\* missing or empty, or the owner is unknown - get_event_log answers with an
\* empty event sequence, get_balances with an empty balance set and
\* get_inventory_snapshot with an empty item list, each as its normal result.
C12_NoMatchGivesAnEmptyResult ==
    /\ (Answered("get_event_log") /\ NoEventMatches(log, req[Client].playerId, req[Client].sceneId))
            => result[Client] = [kind |-> "get_event_log", events |-> <<>>]
    /\ (Answered("get_balances")
            /\ NoMoneyMatches(log, req[Client].ownerType, req[Client].ownerId, req[Client].currency))
            => result[Client] = [kind |-> "get_balances", balances |-> <<>>]
    /\ (Answered("get_inventory_snapshot")
            /\ NoInventoryMatches(log, req[Client].ownerType, req[Client].ownerId))
            => result[Client] = [kind |-> "get_inventory_snapshot", ownerType |-> req[Client].ownerType,
                                 ownerId |-> req[Client].ownerId, items |-> <<>>]

\* get_event_log has answered a query for an unknown player with no events,
\* on a log that holds events of another player
C12_Witness ==
    /\ Answered("get_event_log")
    /\ req[Client].playerId = UnknownId
    /\ log # <<>>
    /\ \A i \in DOMAIN log : log[i].playerId = "p1"
    /\ result[Client].events = <<>>

(* ------------------------------- C14 ----------------------------------- *)

LogReaders == {"get_event_log", "get_balances", "get_inventory_snapshot"}

\* the step is one of request p, whose kind is in kinds
StepOf(p, kinds) == pc'[p] # pc[p] /\ req'[p].kind \in kinds

\* C14 as stated: no step of a get_event_log, get_balances,
\* get_inventory_snapshot or get_player request changes the event log or the
\* players file.
C14_ReadsLeaveFilesUnchanged ==
    [][\A p \in Procs : StepOf(p, LogReaders \cup {"get_player"})
            => log' = log /\ players' = players]_vars

\* C14 as amended: get_event_log, get_balances and get_inventory_snapshot
\* leave the event log and the players file unchanged; get_player leaves the
\* event log unchanged, leaves the players file unchanged for a known id, and
\* for an unknown id adds the default record of that id to the players file
\* and changes no other record.
C14_OnlyGetPlayerOfUnknownIdWrites ==
    [][\A p \in Procs :
          /\ StepOf(p, LogReaders) => log' = log /\ players' = players
          /\ StepOf(p, {"get_player"}) =>
                LET id == req'[p].playerId
                IN /\ log' = log
                   /\ IF id \in DOMAIN players
                      THEN players' = players
                      ELSE players' \in {players, (id :> Player(id)) @@ players}]_vars

\* get_player has answered for an id the players file did not hold: the file
\* now holds the default record of that id next to the patched record of
\* another player, and the log holds events
C14_Witness ==
    /\ Answered("get_player")
    /\ log # <<>>
    /\ \E id \in PlayerIds :
        /\ req[Client].playerId = id
        /\ id \notin DOMAIN loaded[Client]
        /\ id \in DOMAIN players /\ players[id] = Player(id)
        /\ \E other \in DOMAIN players : other # id /\ players[other].name = "Ann"

(* ------------------------------- C15 ----------------------------------- *)

\* C15: get_event_log returns the first max(limit, 0) of the lines that pass
\* the filter, taken from the last appended to the first; never more than
\* max(limit, 0) events, and none for a limit of zero or below.
C15_LimitTakesTheNewestAppended ==
    Answered("get_event_log") =>
        LET q == req[Client]
            matching == SelectSeq(log, LAMBDA e :
                            /\ Truthy(q.playerId) => e.playerId = q.playerId
                            /\ Truthy(q.sceneId) => e.sceneId = q.sceneId)
            n == Len(matching)
            k == Min(Max(q.limit, 0), n)
        IN result[Client].events = [i \in 1..k |-> matching[n + 1 - i]]

====
